---- MODULE Spec2Model ----
(***************************************************************************)
(* Model of mov2mp4.py: a command-line script that converts one .mov file  *)
(* or every .mov file of a directory to .mp4 by running ffmpeg once per    *)
(* input.                                                                  *)
(*                                                                         *)
(* A path is a non-empty sequence of components, a component (a file or    *)
(* directory name) is a sequence of one-character strings, so that the     *)
(* extension arithmetic of pathlib (suffix, with_suffix, str.lower) and    *)
(* the pattern match of glob are computed character by character.  A       *)
(* command is a sequence of strings, as handed to subprocess.run.          *)
(*                                                                         *)
(* The environment is fixed for the length of a run: the file system       *)
(* changes only through the directories the script creates, and the        *)
(* search path does not change.  The encoder is opaque: an invocation      *)
(* ends with exit status 0 or with a non-zero one.  pathlib is modelled    *)
(* as on POSIX (case-sensitive match, "/" separator).  An uncaught Python  *)
(* exception ends the interpreter with exit status 1.                      *)
(***************************************************************************)
EXTENDS Integers, Sequences, FiniteSets, TLC

VARIABLES
    fsFiles,      \* regular files of the file system (set of paths)
    fsDirs,       \* directories of the file system (set of paths)
    ffmpegOnPath, \* whether shutil.which("ffmpeg") finds an executable
    args,         \* the parsed command line (argparse Namespace)
    pc,           \* position of the script
    mode,         \* "single" | "batch" | "none": which call site of convert_file
    movs,         \* main: the list returned by iter_mov_files
    idx,          \* main: position of the for loop in movs
    failures,     \* main: failure counter of the batch loop
    ok,           \* main: the value convert_file returned last
    cur,          \* convert_file: its arguments inp, out and the resolved out
    proc,         \* the running encoder process (its command), or <<>>
    history,      \* every command handed to subprocess.run, with its request
    created,      \* directories created by mkdir (set of paths)
    enumerated,   \* whether iter_mov_files has been called
    exitStatus    \* the process exit status, NoExit while the script runs

vars == <<fsFiles, fsDirs, ffmpegOnPath, args, pc, mode, movs, idx, failures,
          ok, cur, proc, history, created, enumerated, exitStatus>>

-----------------------------------------------------------------------------
(* Bounds of the model *)

\* largest number of regular files in the file system
MaxFiles == 3
\* largest number of passthrough arguments given with --extra
MaxExtra == 2

-----------------------------------------------------------------------------
(* Values *)

\* Python's None for an optional path (no path of the model is empty)
None == <<>>
\* exitStatus while the script has not exited
NoExit == 0 - 1

EXT_MOV == <<".", "m", "o", "v">>
EXT_MP4 == <<".", "m", "p", "4">>
EXT_MP4_UPPER == <<".", "M", "P", "4">>

\* file names of the model
N_a == <<"a">>
N_a_mov == <<"a">> \o EXT_MOV
N_b_mov == <<"b">> \o EXT_MOV
N_c_mov == <<"c">> \o EXT_MOV
N_dot_mov == EXT_MOV
N_a_mp4 == <<"a">> \o EXT_MP4
N_o == <<"o">>
N_o_mp4 == <<"o">> \o EXT_MP4
N_o_MP4 == <<"o">> \o EXT_MP4_UPPER
N_o_mov == <<"o">> \o EXT_MOV
N_o_mp4_mov == <<"o">> \o EXT_MP4 \o EXT_MOV
N_o_dot == <<"o", ".">>

\* directory names of the model
D_d == <<"d">>
D_s == <<"s">>
D_n == <<"n">>
D_e == <<"e">>

-----------------------------------------------------------------------------
(* pathlib and str *)

\* PurePath.name
Name(p) == p[Len(p)]

\* PurePath.parent (the parent of a one-component relative path is ".",
\* modelled as the empty path, the working directory)
Parent(p) == SubSeq(p, 1, Len(p) - 1)

\* the proper and improper ancestors of p, the working directory excluded
Ancestors(p) == {SubSeq(p, 1, k) : k \in 1..Len(p)}

\* str.rfind(ch), 1-based; 0 when ch does not occur
RFind(name, ch) ==
    LET hits == {i \in 1..Len(name) : name[i] = ch}
    IN  IF hits = {} THEN 0 ELSE CHOOSE i \in hits : \A j \in hits : j <= i

\* PurePath.suffix of a name: from the last dot on, unless that dot is the
\* first or the last character
Suffix(name) ==
    LET i == RFind(name, ".")
    IN  IF 1 < i /\ i < Len(name) THEN SubSeq(name, i, Len(name)) ELSE <<>>

\* str.lower on one character
LowerChar(c) ==
    CASE c = "M" -> "m"
      [] c = "O" -> "o"
      [] c = "V" -> "v"
      [] c = "P" -> "p"
      [] OTHER -> c

\* str.lower
Lower(s) == [i \in 1..Len(s) |-> LowerChar(s[i])]

\* PurePath.with_suffix(ext): append ext to a name that has no suffix, else
\* replace the suffix of the name by ext
with_suffix(p, ext) ==
    LET name == Name(p)
        old  == Suffix(name)
        new  == IF old = <<>> THEN name \o ext
                ELSE SubSeq(name, 1, Len(name) - Len(old)) \o ext
    IN  Append(Parent(p), new)

RECURSIVE Concat(_)
\* "".join(chars)
Concat(chars) == IF chars = <<>> THEN "" ELSE chars[1] \o Concat(Tail(chars))

RECURSIVE str_path(_)
\* str(path): the components joined by "/"
str_path(p) ==
    IF Len(p) = 1 THEN Concat(p[1])
    ELSE Concat(p[1]) \o "/" \o str_path(Tail(p))

DigitChar == <<"0", "1", "2", "3", "4", "5", "6", "7", "8", "9">>

RECURSIVE str_nat(_)
str_nat(n) ==
    IF n < 10 THEN DigitChar[n + 1]
    ELSE str_nat(n \div 10) \o DigitChar[(n % 10) + 1]

\* str(int): decimal digits, with a sign for a negative number
str_int(n) == IF n < 0 THEN "-" \o str_nat(0 - n) ELSE str_nat(n)

-----------------------------------------------------------------------------
(* Program constants *)

EXIT_OK == 0
EXIT_FATAL == 1
EXIT_FAILED == 2
DEFAULT_CRF == 20
DEFAULT_PRESET == "medium"

\* what shutil.which("ffmpeg") returns when it finds the encoder
FFMPEG_EXE == "/usr/bin/ffmpeg"

-----------------------------------------------------------------------------
(* The functions of the script *)

\* which_ffmpeg: the executable found, "" when there is none (the script then
\* exits with 1)
which_ffmpeg(onPath) == IF onPath THEN FFMPEG_EXE ELSE ""

\* CodecDirectives with the else of line 42 lost: the re-encode directives are
\* emitted whether or not stream copy is asked for
CodecDirectives_no_else(copy, crf, preset) ==
    (IF copy THEN <<"-c", "copy">> ELSE <<>>)
        \o <<"-c:v", "libx264", "-crf", str_int(crf), "-preset", preset,
             "-c:a", "aac", "-b:a", "192k">>

\* the directives build_cmd emits between the input and the passthrough
\* arguments
CodecDirectives(copy, crf, preset) ==
    IF copy THEN <<"-c", "copy">>
    ELSE <<"-c:v", "libx264", "-crf", str_int(crf), "-preset", preset,
           "-c:a", "aac", "-b:a", "192k">>

\* build_cmd with line 53 indented into the re-encode branch: no subtitle
\* directive with stream copy
build_cmd_subs_in_else(ffmpeg, inp, out, copy, crf, preset, extra) ==
    <<ffmpeg, "-y", "-i", str_path(inp)>>
        \o (IF copy THEN <<"-c", "copy">>
            ELSE <<"-c:v", "libx264", "-crf", str_int(crf), "-preset", preset,
                   "-c:a", "aac", "-b:a", "192k", "-c:s", "copy">>)
        \o <<"-movflags", "+faststart">>
        \o (IF extra # <<>> THEN extra ELSE <<>>)
        \o <<str_path(out)>>

\* build_cmd with lines 58-59 moved before line 52: the passthrough arguments
\* precede the subtitle and faststart directives
build_cmd_extra_early(ffmpeg, inp, out, copy, crf, preset, extra) ==
    <<ffmpeg, "-y", "-i", str_path(inp)>>
        \o (IF copy THEN <<"-c", "copy">>
            ELSE <<"-c:v", "libx264", "-crf", str_int(crf), "-preset", preset,
                   "-c:a", "aac", "-b:a", "192k">>)
        \o (IF extra # <<>> THEN extra ELSE <<>>)
        \o <<"-c:s", "copy">>
        \o <<"-movflags", "+faststart">>
        \o <<str_path(out)>>

build_cmd(ffmpeg, inp, out, copy, crf, preset, extra) ==
    <<ffmpeg, "-y", "-i", str_path(inp)>>
        \o CodecDirectives(copy, crf, preset)
        \o <<"-c:s", "copy">>
        \o <<"-movflags", "+faststart">>
        \o (IF extra # <<>> THEN extra ELSE <<>>)
        \o <<str_path(out)>>

\* resolve_output with the .lower() of line 115 lost
resolve_output_case_sensitive(output) ==
    IF output # None
    THEN IF Suffix(Name(output)) # EXT_MP4
         THEN with_suffix(output, EXT_MP4)
         ELSE output
    ELSE None

\* main: the output path of single-file mode, from the -o option
resolve_output(output) ==
    IF output # None
    THEN IF Lower(Suffix(Name(output))) # EXT_MP4
         THEN with_suffix(output, EXT_MP4)
         ELSE output
    ELSE None

\* convert_out with the extension appended to the input name instead of
\* replacing its extension
convert_out_append(inp, out) ==
    IF out = None THEN Append(Parent(inp), Name(inp) \o EXT_MP4) ELSE out

\* convert_file: the output path it hands to build_cmd
convert_out(inp, out) ==
    IF out = None THEN with_suffix(inp, EXT_MP4) ELSE out

\* fnmatch of a name against "*.mov"
MatchesMov(name) ==
    /\ Len(name) >= Len(EXT_MOV)
    /\ SubSeq(name, Len(name) - Len(EXT_MOV) + 1, Len(name)) = EXT_MOV

IsPrefix(p, q) == Len(p) <= Len(q) /\ SubSeq(q, 1, Len(p)) = p

\* iter_mov_files on a directory: the entries glob or rglob yields, as a set
\* (the order is that of the file system)
iter_mov_files(files, dirs, root, recursive) ==
    {p \in files \cup dirs :
        /\ IsPrefix(root, p)
        /\ Len(p) > Len(root)
        /\ recursive \/ Len(p) = Len(root) + 1
        /\ MatchesMov(Name(p))}

\* the orders in which a set of paths can be enumerated
Orders(S) ==
    {o \in [1..Cardinality(S) -> S] : \A i, j \in 1..Cardinality(S) : i # j => o[i] # o[j]}

\* Path.mkdir(parents=True, exist_ok=True) raises when the path or one of its
\* ancestors is a regular file
MkdirRaises(files, q) == \E a \in Ancestors(q) : a \in files

\* the directories Path.mkdir(parents=True, exist_ok=True) creates
MkdirCreates(dirs, q) == {a \in Ancestors(q) : a \notin dirs}

-----------------------------------------------------------------------------
(* Initial states: a file system, a search path and a command line *)

DirD == <<D_d>>
DirDS == <<D_d, D_s>>

CandidateFiles ==
    {<<N_a_mov>>, <<N_a_mp4>>, <<N_a>>}
        \cup {<<D_d, N_a_mov>>, <<D_d, N_b_mov>>, <<D_d, N_dot_mov>>, <<D_d, N_a_mp4>>}
        \cup {<<D_d, D_s, N_c_mov>>}

FileSystems == {S \in SUBSET CandidateFiles : Cardinality(S) <= MaxFiles}

Inputs == {DirD, <<N_a_mov>>, <<N_a_mp4>>, <<N_a>>}

Outputs ==
    {None, <<N_o>>, <<N_o_mp4>>, <<N_o_MP4>>, <<N_o_mov>>, <<N_o_mp4_mov>>,
     <<N_o_dot>>, <<D_n, D_e, N_o_mov>>, <<N_a_mov, N_o_mp4>>, <<N_a_mp4>>}

\* the passthrough argument lists of the runs of the whole script
MainExtras == {<<>>, <<"-an">>}

NoCall == [inp |-> None, out |-> None]

Init ==
    /\ fsFiles \in FileSystems
    /\ fsDirs = {DirD, DirDS}
    /\ ffmpegOnPath \in BOOLEAN
    /\ args \in [input : Inputs, output : Outputs, copy : BOOLEAN,
                 crf : {DEFAULT_CRF}, preset : {DEFAULT_PRESET},
                 recursive : BOOLEAN, extra : MainExtras]
    /\ pc = "main"
    /\ mode = "none"
    /\ movs = <<>>
    /\ idx = 0
    /\ failures = 0
    /\ ok = FALSE
    /\ cur = NoCall
    /\ proc = <<>>
    /\ history = <<>>
    /\ created = {}
    /\ enumerated = FALSE
    /\ exitStatus = NoExit

\* exists with the check of line 107 lost
exists_unchecked(p) == TRUE

exists(p) == p \in fsFiles \cup fsDirs
is_file(p) == p \in fsFiles

\* sys.exit(status)
Exit(status) == pc' = "done" /\ exitStatus' = status

-----------------------------------------------------------------------------
(* The script, one action per stretch of code between two blocking points *)

\* main, lines 106-109: the input path does not exist
MainMissing ==
    /\ pc = "main"
    /\ ~exists(args.input)
    /\ Exit(EXIT_FATAL)
    /\ UNCHANGED <<fsFiles, fsDirs, ffmpegOnPath, args, mode, movs, idx,
                   failures, ok, cur, proc, history, created, enumerated>>

\* main, lines 112-121: the input is a file; call convert_file with the
\* output resolved from -o
MainSingle ==
    /\ pc = "main"
    /\ exists(args.input)
    /\ is_file(args.input)
    /\ cur' = [inp |-> args.input, out |-> resolve_output(args.output)]
    /\ mode' = "single"
    /\ pc' = "convert"
    /\ UNCHANGED <<fsFiles, fsDirs, ffmpegOnPath, args, movs, idx, failures,
                   ok, proc, history, created, enumerated, exitStatus>>

\* main, lines 125-128: the input is a directory without a .mov entry
MainBatchEmpty ==
    /\ pc = "main"
    /\ exists(args.input)
    /\ ~is_file(args.input)
    /\ iter_mov_files(fsFiles, fsDirs, args.input, args.recursive) = {}
    /\ enumerated' = TRUE
    /\ movs' = <<>>
    /\ Exit(EXIT_OK)
    /\ UNCHANGED <<fsFiles, fsDirs, ffmpegOnPath, args, mode, idx, failures,
                   ok, cur, proc, history, created>>

\* main, lines 125-133: the input is a directory; enumerate it, enter the loop
\* and call convert_file for the first entry
MainBatch ==
    /\ pc = "main"
    /\ exists(args.input)
    /\ ~is_file(args.input)
    /\ iter_mov_files(fsFiles, fsDirs, args.input, args.recursive) # {}
    /\ enumerated' = TRUE
    /\ \E order \in Orders(iter_mov_files(fsFiles, fsDirs, args.input, args.recursive)) :
          /\ movs' = order
          /\ cur' = [inp |-> order[1], out |-> None]
    /\ failures' = 0
    /\ idx' = 1
    /\ mode' = "batch"
    /\ pc' = "convert"
    /\ UNCHANGED <<fsFiles, fsDirs, ffmpegOnPath, args, ok, proc, history,
                   created, exitStatus>>

\* convert_file, line 65 (which_ffmpeg, lines 27-33): no encoder on the path
ConvertNoFfmpeg ==
    /\ pc = "convert"
    /\ which_ffmpeg(ffmpegOnPath) = ""
    /\ Exit(EXIT_FATAL)
    /\ UNCHANGED <<fsFiles, fsDirs, ffmpegOnPath, args, mode, movs, idx,
                   failures, ok, cur, proc, history, created, enumerated>>

\* convert_file, lines 65-73: mkdir raises, nothing catches the exception
ConvertMkdirError ==
    /\ pc = "convert"
    /\ which_ffmpeg(ffmpegOnPath) # ""
    /\ MkdirRaises(fsFiles, Parent(convert_out(cur.inp, cur.out)))
    /\ Exit(EXIT_FATAL)
    /\ UNCHANGED <<fsFiles, fsDirs, ffmpegOnPath, args, mode, movs, idx,
                   failures, ok, cur, proc, history, created, enumerated>>

\* convert_file, lines 65-79: resolve the output, make its directory, build
\* the command and start the encoder
ConvertSpawn ==
    /\ pc = "convert"
    /\ which_ffmpeg(ffmpegOnPath) # ""
    /\ LET out == convert_out(cur.inp, cur.out)
           cmd == build_cmd(which_ffmpeg(ffmpegOnPath), cur.inp, out,
                            args.copy, args.crf, args.preset, args.extra)
       IN  /\ ~MkdirRaises(fsFiles, Parent(out))
           /\ created' = created \cup MkdirCreates(fsDirs, Parent(out))
           /\ fsDirs' = fsDirs \cup MkdirCreates(fsDirs, Parent(out))
           /\ proc' = cmd
           /\ history' = Append(history,
                  [inp |-> cur.inp, out |-> out, copy |-> args.copy,
                   crf |-> args.crf, preset |-> args.preset,
                   extra |-> args.extra, cmd |-> cmd, rc |-> NoExit])
    /\ pc' = "running"
    /\ UNCHANGED <<fsFiles, ffmpegOnPath, args, mode, movs, idx, failures, ok,
                   cur, enumerated, exitStatus>>

\* the exit statuses of the encoder the model distinguishes
EncoderStatuses == {0, 1}

\* convert_file, lines 79-84: subprocess.run returns or raises
\* CalledProcessError; convert_file returns True or False
EncoderExit ==
    /\ pc = "running"
    /\ \E rc \in EncoderStatuses :
          /\ ok' = (rc = 0)
          /\ history' = [history EXCEPT ![Len(history)].rc = rc]
    /\ proc' = <<>>
    /\ pc' = "returned"
    /\ UNCHANGED <<fsFiles, fsDirs, ffmpegOnPath, args, mode, movs, idx,
                   failures, cur, created, enumerated, exitStatus>>

\* main, line 122
SingleExit ==
    /\ pc = "returned"
    /\ mode = "single"
    /\ Exit(IF ok THEN EXIT_OK ELSE EXIT_FAILED)
    /\ UNCHANGED <<fsFiles, fsDirs, ffmpegOnPath, args, mode, movs, idx,
                   failures, ok, cur, proc, history, created, enumerated>>

\* BatchNext leaving the loop at the first failure
BatchNext_abort ==
    /\ pc = "returned"
    /\ mode = "batch"
    /\ failures' = failures + (IF ok THEN 0 ELSE 1)
    /\ IF ok /\ idx < Len(movs)
       THEN /\ idx' = idx + 1
            /\ cur' = [inp |-> movs[idx + 1], out |-> None]
            /\ pc' = "convert"
       ELSE /\ pc' = "finish"
            /\ UNCHANGED <<idx, cur>>
    /\ UNCHANGED <<fsFiles, fsDirs, ffmpegOnPath, args, mode, movs, ok, proc,
                   history, created, enumerated, exitStatus>>

\* main, lines 131-134: count the failure; call convert_file for the next entry
BatchNext ==
    /\ pc = "returned"
    /\ mode = "batch"
    /\ failures' = failures + (IF ok THEN 0 ELSE 1)
    /\ IF idx < Len(movs)
       THEN /\ idx' = idx + 1
            /\ cur' = [inp |-> movs[idx + 1], out |-> None]
            /\ pc' = "convert"
       ELSE /\ pc' = "finish"
            /\ UNCHANGED <<idx, cur>>
    /\ UNCHANGED <<fsFiles, fsDirs, ffmpegOnPath, args, mode, movs, ok, proc,
                   history, created, enumerated, exitStatus>>

\* main, lines 136-139
BatchFinish ==
    /\ pc = "finish"
    /\ Exit(IF failures # 0 THEN EXIT_FAILED ELSE EXIT_OK)
    /\ UNCHANGED <<fsFiles, fsDirs, ffmpegOnPath, args, mode, movs, idx,
                   failures, ok, cur, proc, history, created, enumerated>>

Next ==
    \/ MainMissing
    \/ MainSingle
    \/ MainBatchEmpty
    \/ MainBatch
    \/ ConvertNoFfmpeg
    \/ ConvertMkdirError
    \/ ConvertSpawn
    \/ EncoderExit
    \/ SingleExit
    \/ BatchNext
    \/ BatchFinish

Spec == Init /\ [][Next]_vars

-----------------------------------------------------------------------------
(* build_cmd on its own: the requests are drawn freely, one call is made *)

\* tokens a user may pass after --extra
ExtraTokens == {"-an", "-c", "copy", "-c:s", "-crf", "18"}

\* the passthrough argument lists of at most MaxExtra tokens
ExtraLists == UNION {[1..n -> ExtraTokens] : n \in 0..MaxExtra}

CmdInputs == {<<N_a_mov>>, <<D_d, N_dot_mov>>}
CmdOutputs == {<<N_o_mp4>>, <<D_n, N_o_MP4>>}
CmdCrfs == {0 - 1, 0, DEFAULT_CRF, 105}
CmdPresets == {DEFAULT_PRESET, "veryslow"}

InitCmd ==
    /\ fsFiles = {}
    /\ fsDirs = {}
    /\ ffmpegOnPath = TRUE
    /\ args \in [input : CmdInputs, output : CmdOutputs, copy : BOOLEAN,
                 crf : CmdCrfs, preset : CmdPresets,
                 recursive : {FALSE}, extra : ExtraLists]
    /\ pc = "build"
    /\ mode = "none"
    /\ movs = <<>>
    /\ idx = 0
    /\ failures = 0
    /\ ok = FALSE
    /\ cur = NoCall
    /\ proc = <<>>
    /\ history = <<>>
    /\ created = {}
    /\ enumerated = FALSE
    /\ exitStatus = NoExit

\* one call of build_cmd, its result recorded with the request
BuildCmdCall ==
    /\ pc = "build"
    /\ history' = Append(history,
           [inp |-> args.input, out |-> args.output, copy |-> args.copy,
            crf |-> args.crf, preset |-> args.preset, extra |-> args.extra,
            cmd |-> build_cmd(which_ffmpeg(ffmpegOnPath), args.input,
                              args.output, args.copy, args.crf, args.preset,
                              args.extra),
            rc |-> NoExit])
    /\ pc' = "built"
    /\ UNCHANGED <<fsFiles, fsDirs, ffmpegOnPath, args, mode, movs, idx,
                   failures, ok, cur, proc, created, enumerated, exitStatus>>

NextCmd == BuildCmdCall

SpecCmd == InitCmd /\ [][NextCmd]_vars

-----------------------------------------------------------------------------
(* Vocabulary of the properties *)

\* the directories of the initial file system (the script only adds to them)
InitialDirs == {DirD, DirDS}

\* the input path existed when the script started
InputExisted == args.input \in fsFiles \cup InitialDirs

Invocations == 1..Len(history)

\* the flag f occurs in command c
HasToken(c, f) == \E i \in 1..Len(c) : c[i] = f

\* the positions at which the directive "f v" occurs in command c
DirectiveAt(c, f, v) == {i \in 1..(Len(c) - 1) : c[i] = f /\ c[i + 1] = v}

HasDirective(c, f, v) == DirectiveAt(c, f, v) # {}

\* the tokens of an invocation that build_cmd emits between the input path
\* and the passthrough arguments
BuiltIn(r) == SubSeq(r.cmd, 5, Len(r.cmd) - Len(r.extra) - 1)

\* the flags of the codec, quality, preset and audio-bitrate directives
ReencodeFlags == {"-c:v", "-crf", "-preset", "-c:a", "-b:a"}

\* what the claims about stream copy ask of a token sequence c
CopyRule(copy, c) ==
    IF copy
    THEN /\ HasDirective(c, "-c", "copy")
         /\ \A f \in ReencodeFlags : ~HasToken(c, f)
    ELSE /\ HasDirective(c, "-c:v", "libx264")
         /\ ~HasDirective(c, "-c", "copy")

EndsWith(name, ext) ==
    /\ Len(name) >= Len(ext)
    /\ SubSeq(name, Len(name) - Len(ext) + 1, Len(name)) = ext

\* name ends with ext, and what precedes that ext does not
EndsWithOnce(name, ext) ==
    /\ EndsWith(name, ext)
    /\ ~EndsWith(SubSeq(name, 1, Len(name) - Len(ext)), ext)

\* the extension of a name: what starts at its last dot, when that dot is
\* neither the first nor the last character
ExtensionOf(name) ==
    LET dots == {k \in 2..(Len(name) - 1) :
                    /\ name[k] = "."
                    /\ \A j \in (k + 1)..Len(name) : name[j] # "."}
    IN  IF dots = {} THEN <<>>
        ELSE SubSeq(name, CHOOSE k \in dots : TRUE, Len(name))

\* a name without its extension
StemOf(name) == SubSeq(name, 1, Len(name) - Len(ExtensionOf(name)))

\* the extension is .mp4 in some letter case
HasTargetExtension(name) ==
    ExtensionOf(name) \in {<<".", m, p, "4">> : m \in {"m", "M"}, p \in {"p", "P"}}

-----------------------------------------------------------------------------
(* C1 *)

\* C1: in a run whose input path exists and whose encoder is found, the exit
\* status is 0 exactly when every encoder invocation made exited with 0 (none
\* made included) and 2 exactly when some invocation exited non-zero.
C1_ExitStatus ==
    (pc = "done" /\ InputExisted /\ ffmpegOnPath) =>
        /\ exitStatus = EXIT_OK <=> \A i \in Invocations : history[i].rc = 0
        /\ exitStatus = EXIT_FAILED <=> \E i \in Invocations : history[i].rc # 0

-----------------------------------------------------------------------------
(* C2 *)

\* C2: when the encoder is not on the search path and the input path exists,
\* no input is enumerated, no directory is created, no process is spawned, and
\* the run ends with exit status 1.
C2_NoEncoderHaltsFirst ==
    (~ffmpegOnPath /\ InputExisted) =>
        /\ ~enumerated
        /\ created = {}
        /\ history = <<>> /\ proc = <<>>
        /\ pc = "done" => exitStatus = EXIT_FATAL

-----------------------------------------------------------------------------
(* C3 *)

\* C3: when the input path does not exist, the run ends with exit status 1,
\* no encoder process is spawned and no directory is created, whatever -o,
\* --copy, --recursive and --extra are.
C3_MissingInput ==
    ~InputExisted =>
        /\ pc \in {"main", "done"}
        /\ history = <<>> /\ proc = <<>>
        /\ created = {} /\ fsDirs = InitialDirs
        /\ pc = "done" => exitStatus = EXIT_FATAL

C3_Witness ==
    /\ ~InputExisted
    /\ pc = "done" /\ exitStatus = EXIT_FATAL
    /\ args.output = <<D_n, D_e, N_o_mov>>
    /\ args.copy /\ args.recursive /\ args.extra # <<>>

-----------------------------------------------------------------------------
(* C4 *)

\* C4: for a directory input (the encoder being found), the invocations are
\* those of the discovered entries, one each and in discovery order; an
\* invocation starts only when every earlier one has exited; and at the end
\* every discovered entry has had its invocation, whatever the exit statuses.
C4_OncePerFileInOrder ==
    (enumerated /\ ffmpegOnPath) =>
        /\ Len(history) <= Len(movs)
        /\ \A i \in Invocations : history[i].inp = movs[i]
        /\ \A i, j \in 1..Len(movs) : i # j => movs[i] # movs[j]
        /\ {movs[i] : i \in 1..Len(movs)}
              = iter_mov_files(fsFiles, InitialDirs, args.input, args.recursive)
        /\ \A i \in Invocations : i < Len(history) => history[i].rc # NoExit
        /\ proc # <<>> <=>
              (history # <<>> /\ history[Len(history)].rc = NoExit)
        /\ pc = "done" =>
              /\ Len(history) = Len(movs)
              /\ \A i \in Invocations : history[i].rc # NoExit

C4_Witness ==
    /\ enumerated /\ ffmpegOnPath
    /\ pc = "done"
    /\ Len(history) >= 3
    /\ history[1].rc # 0
    /\ history[2].rc = 0
    /\ history[3].rc # 0

-----------------------------------------------------------------------------
(* C5 *)

\* C5: in every command of build_cmd, taken whole: without stream copy it has
\* the directive -c:v libx264 and no -c copy; with stream copy it has -c copy
\* and none of the codec, quality, preset and audio-bitrate directives.
C5_CopyOrEncode ==
    \A i \in Invocations : CopyRule(history[i].copy, history[i].cmd)

\* C5 as amended: the same of the tokens build_cmd emits itself, between the
\* input path and the passthrough arguments (which may add any directive).
C5_CopyOrEncodeBuiltIn ==
    \A i \in Invocations : CopyRule(history[i].copy, BuiltIn(history[i]))

C5_Witness ==
    \E i \in Invocations :
        /\ ~history[i].copy
        /\ HasDirective(history[i].extra, "-c", "copy")
        /\ CopyRule(FALSE, BuiltIn(history[i]))

-----------------------------------------------------------------------------
(* C6 *)

\* C6: every command of build_cmd, taken whole, has exactly one directive
\* -c:s copy and exactly one directive -movflags +faststart.
C6_OneSubtitleOneFaststart ==
    \A i \in Invocations :
        /\ Cardinality(DirectiveAt(history[i].cmd, "-c:s", "copy")) = 1
        /\ Cardinality(DirectiveAt(history[i].cmd, "-movflags", "+faststart")) = 1

\* C6 as amended: the tokens build_cmd emits itself, between the input path
\* and the passthrough arguments, hold exactly one -c:s copy and exactly one
\* -movflags +faststart, with and without stream copy.
C6_OneSubtitleOneFaststartBuiltIn ==
    \A i \in Invocations :
        /\ Cardinality(DirectiveAt(BuiltIn(history[i]), "-c:s", "copy")) = 1
        /\ Cardinality(DirectiveAt(BuiltIn(history[i]), "-movflags", "+faststart")) = 1

C6_Witness ==
    \E i \in Invocations :
        /\ history[i].copy
        /\ HasDirective(history[i].extra, "-c:s", "copy")
        /\ Cardinality(DirectiveAt(BuiltIn(history[i]), "-c:s", "copy")) = 1

-----------------------------------------------------------------------------
(* C9 *)

\* C9: in every command of build_cmd the last token is the output path, the
\* passthrough arguments stand right before it, verbatim and in order, and
\* the overwrite flag, the input, the codec or copy directives, the subtitle
\* directive and the faststart directive all stand before the passthrough
\* arguments.
C9_ExtraAfterBuiltInOutputLast ==
    \A i \in Invocations :
        LET r == history[i]
            n == Len(r.cmd)
            k == Len(r.extra)
            head == SubSeq(r.cmd, 1, n - k - 1)
        IN  /\ n >= k + 1
            /\ r.cmd[n] = str_path(r.out)
            /\ SubSeq(r.cmd, n - k, n - 1) = r.extra
            /\ head[2] = "-y"
            /\ head[3] = "-i" /\ head[4] = str_path(r.inp)
            /\ HasDirective(head, "-c:s", "copy")
            /\ HasDirective(head, "-movflags", "+faststart")
            /\ IF r.copy
               THEN HasDirective(head, "-c", "copy")
               ELSE /\ HasDirective(head, "-c:v", "libx264")
                    /\ HasDirective(head, "-crf", str_int(r.crf))
                    /\ HasDirective(head, "-preset", r.preset)
                    /\ HasDirective(head, "-c:a", "aac")
                    /\ HasDirective(head, "-b:a", "192k")

C9_Witness ==
    \E i \in Invocations :
        /\ Len(history[i].extra) >= 2
        /\ history[i].extra[1] = "-crf" /\ history[i].extra[2] = "18"
        /\ history[i].cmd[Len(history[i].cmd)] = "n/o.MP4"

-----------------------------------------------------------------------------
(* C7 *)

\* the invocations of single-file mode made with an explicit -o path
ExplicitOutput(i) == mode = "single" /\ args.output # None /\ i \in Invocations

\* C7: in single-file mode, an explicit -o path whose extension is not the
\* target extension (none, or another one) gives the encoder an output path
\* that ends with .mp4 exactly once; an explicit -o path that has the target
\* extension is used unchanged.
C7_TargetExtensionOnce ==
    \A i \in Invocations :
        ExplicitOutput(i) =>
            IF HasTargetExtension(Name(args.output))
            THEN history[i].out = args.output
            ELSE EndsWithOnce(Name(history[i].out), EXT_MP4)

\* C7 as amended: such a path gives the encoder the same path with its last
\* extension replaced by .mp4 (appended when it has none), which ends with
\* .mp4 exactly once unless the given name already carries .mp4 before its
\* last extension; a path whose extension is .mp4 in any letter case is used
\* unchanged.
C7_TargetExtensionSubstituted ==
    \A i \in Invocations :
        ExplicitOutput(i) =>
            LET given == args.output
                out   == history[i].out
            IN  /\ history[i].cmd[Len(history[i].cmd)] = str_path(out)
                /\ IF HasTargetExtension(Name(given))
                   THEN out = given
                   ELSE /\ Parent(out) = Parent(given)
                        /\ Name(out) = StemOf(Name(given)) \o EXT_MP4
                        /\ ExtensionOf(Name(out)) = EXT_MP4
                        /\ \/ EndsWithOnce(Name(out), EXT_MP4)
                           \/ EndsWith(StemOf(Name(given)), EXT_MP4)

C7_Witness ==
    /\ ExplicitOutput(1)
    /\ args.output = <<N_o_mp4_mov>>
    /\ history[1].out = <<N_o_mp4 \o EXT_MP4>>
    /\ pc = "done"

-----------------------------------------------------------------------------
(* C8 *)

\* C8: an invocation made without explicit output, and every invocation of a
\* directory run whatever -o is, gets as output path the input path with its
\* extension replaced by .mp4, in the directory of the input.
C8_DerivedOutput ==
    \A i \in Invocations :
        (mode = "batch" \/ args.output = None) =>
            LET r == history[i]
            IN  /\ Parent(r.out) = Parent(r.inp)
                /\ Name(r.out) = StemOf(Name(r.inp)) \o EXT_MP4
                /\ r.cmd[Len(r.cmd)] = str_path(r.out)

C8_Witness ==
    /\ mode = "batch"
    /\ args.output = <<N_o_mov>>
    /\ args.recursive
    /\ Len(history) >= 2
    /\ \E i \in Invocations :
          /\ history[i].inp = <<D_d, D_s, N_c_mov>>
          /\ history[i].out = <<D_d, D_s, <<"c">> \o EXT_MP4>>

-----------------------------------------------------------------------------
(* C10 *)

\* C10: the output path of an invocation is never its input path.
C10_OutputIsNotInput ==
    \A i \in Invocations : history[i].out # history[i].inp

====
